---- MODULE Spec2Model ----
(***************************************************************************)
(* FutureOptionShortPutOTMExpiryRegressionAlgorithm: the regression        *)
(* algorithm as a state machine.  The algorithm's callbacks (Initialize,   *)
(* ScheduledMarketOrder, OnData, OnOrderEvent, OnEndOfAlgorithm) are the   *)
(* actions; what the engine hands them (the option chain, data slices,     *)
(* order events, holdings, the invested flag) is drawn from small sets.    *)
(***************************************************************************)
EXTENDS Integers, Sequences, FiniteSets, TLC

VARIABLES
    pc,                \* "constructed", "running", "ended" or "failed"
    es19h21,           \* self.es19h21
    esOption,          \* self.esOption
    expectedContract,  \* self.expectedContract
    securities,        \* self.Securities: the symbols registered so far
    holdings,          \* Security.Holdings.Quantity of every registered symbol
    scheduled,         \* the scheduled event: "none", "pending" or "fired"
    orders,            \* the orders submitted through self.MarketOrder
    log,               \* the lines written through self.Log
    error,             \* the exception that ended the run, or NoError
    last               \* the last callback invoked and what it was handed

vars == <<pc, es19h21, esOption, expectedContract, securities, holdings,
          scheduled, orders, log, error, last>>

fields == <<es19h21, esOption, expectedContract>>

(***************************************************************************)
(* Bounds of the model.                                                    *)
(***************************************************************************)
MaxChain == 2
MaxFills == 2

(***************************************************************************)
(* Constants of the algorithm.                                             *)
(***************************************************************************)
StrikeThreshold == 3200
ExpectedStrike == 3200
FutureExpiry == 20210319
OptionExpiry == 20210319
WarningDate == 20210319
DelistedDate == 20210320
OrderQuantity == -1
ExpectedSellHoldings == -1
ExpectedBuyHoldings == 0

(***************************************************************************)
(* Symbols.  A symbol is its security identifier; two symbols are equal    *)
(* when every component of the identifier is.                              *)
(***************************************************************************)
None == [type |-> "None"]
NoError == [type |-> "NoError"]

CreateEquity(ticker) == [type |-> "Equity", ticker |-> ticker]

CreateFuture(ticker, market, expiry) ==
    [type |-> "Future", ticker |-> ticker, market |-> market, expiry |-> expiry]

CreateOption(underlying, market, style, right, strike, expiry) ==
    [type |-> "FutureOption", underlying |-> underlying, market |-> market,
     style |-> style, right |-> right, strike |-> strike, expiry |-> expiry]

AAPL == CreateEquity("AAPL")

ES19H21 == CreateFuture("ES", "CME", FutureExpiry)

ExpectedContract(underlying) ==
    CreateOption(underlying, "CME", "American", "Put", ExpectedStrike, OptionExpiry)

(***************************************************************************)
(* The option chain provider: any list of at most MaxChain contracts on    *)
(* the queried future, of either right, at strikes below, at and above the *)
(* threshold, expiring with the future or a quarter later.                 *)
(***************************************************************************)
ChainStrikes == {3100, 3200, 3300}
ChainExpiries == {20210319, 20210618}
ChainRights == {"Put", "Call"}

ChainContracts(underlying) ==
    {CreateOption(underlying, "CME", "American", r, k, e) :
        r \in ChainRights, k \in ChainStrikes, e \in ChainExpiries}

SeqsUpTo(S, n) == UNION {[1..m -> S] : m \in 0..n}

OptionChains == SeqsUpTo(ChainContracts(ES19H21), MaxChain)

(***************************************************************************)
(* Initialize, lines 60-66: the chain filtered to the puts at or above the *)
(* threshold, sorted by strike (Python's sorted is stable), first element. *)
(***************************************************************************)
OptionFilterStrict(x) == x.strike > StrikeThreshold /\ x.right = "Put"

OptionFilter(x) == x.strike >= StrikeThreshold /\ x.right = "Put"

RECURSIVE InsertByStrike(_, _)
InsertByStrike(sorted, x) ==
    IF sorted = <<>> THEN <<x>>
    ELSE IF sorted[Len(sorted)].strike <= x.strike THEN Append(sorted, x)
    ELSE Append(InsertByStrike(SubSeq(sorted, 1, Len(sorted) - 1), x),
                sorted[Len(sorted)])

RECURSIVE SortedByStrike(_)
SortedByStrike(s) ==
    IF s = <<>> THEN <<>>
    ELSE InsertByStrike(SortedByStrike(SubSeq(s, 1, Len(s) - 1)), s[Len(s)])

Candidates(chain) == SortedByStrike(SelectSeq(chain, OptionFilter))

LogLine(text) == [text |-> text]

AssertionError(category, message, subject) ==
    [type |-> "AssertionError", category |-> category, message |-> message,
     subject |-> subject]

IndexError == [type |-> "IndexError", message |-> "list index out of range"]

Init ==
    /\ pc = "constructed"
    /\ es19h21 = None
    /\ esOption = None
    /\ expectedContract = None
    /\ securities = {}
    /\ holdings = << >>
    /\ scheduled = "none"
    /\ orders = <<>>
    /\ log = <<>>
    /\ error = NoError
    /\ last = [cb |-> "none"]

ZeroHoldings(symbols) == [s \in symbols |-> 0]

Initialize(chain) ==
    /\ pc = "constructed"
    /\ last' = [cb |-> "Initialize", chain |-> chain]
    /\ es19h21' = ES19H21
    /\ orders' = orders
    /\ LET cands == Candidates(chain)
           expected == ExpectedContract(ES19H21)
       IN IF cands = <<>>
          THEN \* line 66: [0] of an empty list
               /\ pc' = "failed"
               /\ error' = IndexError
               /\ esOption' = None
               /\ expectedContract' = None
               /\ securities' = {AAPL, ES19H21}
               /\ holdings' = ZeroHoldings({AAPL, ES19H21})
               /\ log' = <<LogLine("lookup")>>
               /\ scheduled' = "none"
          ELSE /\ esOption' = cands[1]
               /\ expectedContract' = expected
               /\ securities' = {AAPL, ES19H21, cands[1]}
               /\ holdings' = ZeroHoldings({AAPL, ES19H21, cands[1]})
               /\ IF cands[1] # expected
                  THEN /\ pc' = "failed"
                       /\ error' = AssertionError("contract-identity",
                              "Contract was not found in the chain", expected)
                       /\ log' = <<LogLine("lookup"), LogLine("Creation")>>
                       /\ scheduled' = "none"
                  ELSE /\ pc' = "running"
                       /\ error' = NoError
                       /\ log' = <<LogLine("lookup"), LogLine("Creation"),
                                   LogLine("Schedule")>>
                       /\ scheduled' = "pending"

(***************************************************************************)
(* ScheduledMarketOrder, lines 77-78.  The engine fires the event          *)
(* registered at line 75 once, on its date.                                *)
(***************************************************************************)
ScheduledOrderBuys == [symbol |-> esOption, quantity |-> 1]

ScheduledOrderOnUnderlying == [symbol |-> es19h21, quantity |-> OrderQuantity]

ScheduledOrder == [symbol |-> esOption, quantity |-> OrderQuantity]

ScheduledMarketOrderKeepsTicket ==
    /\ pc = "running"
    /\ scheduled = "pending"
    /\ scheduled' = "fired"
    /\ orders' = Append(orders, [symbol |-> esOption, quantity |-> OrderQuantity])
    /\ esOption' = [type |-> "OrderTicket", orderId |-> Len(orders')]
    /\ last' = [cb |-> "ScheduledMarketOrder"]
    /\ UNCHANGED <<pc, es19h21, expectedContract, securities, holdings, log,
                   error>>

ScheduledMarketOrder ==
    /\ pc = "running"
    /\ scheduled = "pending"
    /\ scheduled' = "fired"
    /\ orders' = Append(orders, ScheduledOrder)
    /\ last' = [cb |-> "ScheduledMarketOrder"]
    /\ UNCHANGED <<pc, es19h21, esOption, expectedContract, securities,
                   holdings, log, error>>

(***************************************************************************)
(* OnData, lines 80-90.  data.Delistings maps a symbol to its delisting    *)
(* event; the loop visits the values in the dictionary's order and raises  *)
(* at the first one that is mistimed.                                      *)
(***************************************************************************)
DelistingTypes == {"Warning", "Delisted"}
DelistingTimes == {20210319, 20210320, 20210322}
DelistableSymbols == {ES19H21, ExpectedContract(ES19H21)}

DelistingEvents ==
    [symbol : DelistableSymbols, type : DelistingTypes, time : DelistingTimes]

Slices ==
    {s \in SeqsUpTo(DelistingEvents, Cardinality(DelistableSymbols)) :
        \A i, j \in 1..Len(s) : i # j => s[i].symbol # s[j].symbol}

RECURSIVE CheckDelistingsSameDay(_)
CheckDelistingsSameDay(values) ==
    IF values = <<>> THEN NoError
    ELSE LET delisting == Head(values)
         IN IF delisting.type = "Warning" /\ delisting.time # WarningDate
            THEN AssertionError("delisting-timing",
                     "Delisting warning issued at unexpected date", delisting.time)
            ELSE IF delisting.type = "Delisted" /\ delisting.time # WarningDate
            THEN AssertionError("delisting-timing",
                     "Delisting happened at unexpected date", delisting.time)
            ELSE CheckDelistingsSameDay(Tail(values))

RECURSIVE CheckDelistings(_)
CheckDelistings(values) ==
    IF values = <<>> THEN NoError
    ELSE LET delisting == Head(values)
         IN IF delisting.type = "Warning" /\ delisting.time # WarningDate
            THEN AssertionError("delisting-timing",
                     "Delisting warning issued at unexpected date", delisting.time)
            ELSE IF delisting.type = "Delisted" /\ delisting.time # DelistedDate
            THEN AssertionError("delisting-timing",
                     "Delisting happened at unexpected date", delisting.time)
            ELSE CheckDelistings(Tail(values))

OnData(slice) ==
    /\ pc = "running"
    /\ last' = [cb |-> "OnData", slice |-> slice]
    /\ error' = CheckDelistings(slice)
    /\ pc' = IF error' = NoError THEN "running" ELSE "failed"
    /\ UNCHANGED <<es19h21, esOption, expectedContract, securities, holdings,
                   scheduled, orders, log>>

(***************************************************************************)
(* OnOrderEvent, lines 93-111, and AssertFutureOptionContractOrder, lines  *)
(* 113-121.  The engine applies a fill to the portfolio before it delivers *)
(* the event, so the handler reads the holdings the fill left.             *)
(***************************************************************************)
OrderStatuses == {"Submitted", "Filled"}
OrderDirections == {"Buy", "Sell", "Hold"}
HoldingQuantities == {-1, 0, 1}
UnlistedContract ==
    CreateOption(ES19H21, "CME", "American", "Put", 3300, OptionExpiry)
EventSymbols == {AAPL, ES19H21, ExpectedContract(ES19H21), UnlistedContract}

OrderEvents ==
    [status : OrderStatuses, symbol : EventSymbols, direction : OrderDirections,
     isAssignment : BOOLEAN]

AssertWithoutAssignmentCheck(orderEvent, quantity) ==
    IF orderEvent.direction = "Sell" /\ quantity # ExpectedSellHoldings
    THEN AssertionError("holdings-quantity",
             "No holdings were created for option contract", orderEvent.symbol)
    ELSE IF orderEvent.direction = "Buy" /\ quantity # ExpectedBuyHoldings
    THEN AssertionError("holdings-quantity",
             "Expected no options holdings after closing position", orderEvent.symbol)
    ELSE NoError

AssertWithoutBuyCheck(orderEvent, quantity) ==
    IF orderEvent.direction = "Sell" /\ quantity # ExpectedSellHoldings
    THEN AssertionError("holdings-quantity",
             "No holdings were created for option contract", orderEvent.symbol)
    ELSE IF orderEvent.isAssignment
    THEN AssertionError("assignment",
             "Assignment was not expected for", orderEvent.symbol)
    ELSE NoError

AssertFutureOptionContractOrder(orderEvent, quantity) ==
    IF orderEvent.direction = "Sell" /\ quantity # ExpectedSellHoldings
    THEN AssertionError("holdings-quantity",
             "No holdings were created for option contract", orderEvent.symbol)
    ELSE IF orderEvent.direction = "Buy" /\ quantity # ExpectedBuyHoldings
    THEN AssertionError("holdings-quantity",
             "Expected no options holdings after closing position", orderEvent.symbol)
    ELSE IF orderEvent.isAssignment
    THEN AssertionError("assignment",
             "Assignment was not expected for", orderEvent.symbol)
    ELSE NoError

OrderEventResultNoStatusFilter(orderEvent, held) ==
    IF orderEvent.symbol \notin securities
    THEN [error |-> AssertionError("order-event-symbol",
                        "Order event Symbol not found in Securities collection",
                        orderEvent.symbol),
          asserted |-> FALSE, logged |-> FALSE]
    ELSE IF orderEvent.symbol = es19h21
    THEN [error |-> AssertionError("order-event-symbol",
                        "Expected no order events for underlying Symbol",
                        orderEvent.symbol),
          asserted |-> FALSE, logged |-> FALSE]
    ELSE IF orderEvent.symbol = expectedContract
    THEN LET e == AssertFutureOptionContractOrder(orderEvent, held[orderEvent.symbol])
         IN [error |-> e, asserted |-> TRUE, logged |-> (e = NoError)]
    ELSE [error |-> AssertionError("order-event-symbol",
                        "Received order event for unknown Symbol",
                        orderEvent.symbol),
          asserted |-> FALSE, logged |-> FALSE]

\* What the handler does with orderEvent when the portfolio holds `held`:
\* the exception it raises (or NoError), whether it reached the assertion
\* routine, and whether it reached the Log call of line 111.
OrderEventResult(orderEvent, held) ==
    IF orderEvent.status # "Filled"
    THEN [error |-> NoError, asserted |-> FALSE, logged |-> FALSE]
    ELSE IF orderEvent.symbol \notin securities
    THEN [error |-> AssertionError("order-event-symbol",
                        "Order event Symbol not found in Securities collection",
                        orderEvent.symbol),
          asserted |-> FALSE, logged |-> FALSE]
    ELSE IF orderEvent.symbol = es19h21
    THEN [error |-> AssertionError("order-event-symbol",
                        "Expected no order events for underlying Symbol",
                        orderEvent.symbol),
          asserted |-> FALSE, logged |-> FALSE]
    ELSE IF orderEvent.symbol = expectedContract
    THEN LET e == AssertFutureOptionContractOrder(orderEvent, held[orderEvent.symbol])
         IN [error |-> e, asserted |-> TRUE, logged |-> (e = NoError)]
    ELSE [error |-> AssertionError("order-event-symbol",
                        "Received order event for unknown Symbol",
                        orderEvent.symbol),
          asserted |-> FALSE, logged |-> FALSE]

\* Line 111's log line, annotated with the holdings the handler read.
OrderEventLine(orderEvent, held) ==
    [text |-> "OrderEvent", event |-> orderEvent,
     held |-> held[orderEvent.symbol]]

OrderEventLines == SelectSeq(log, LAMBDA l : l.text = "OrderEvent")

\* The portfolio after the engine has applied the event: a fill of a
\* registered security leaves it with `quantity`.
HoldingsAfter(orderEvent, quantity) ==
    IF orderEvent.status = "Filled" /\ orderEvent.symbol \in securities
    THEN [holdings EXCEPT ![orderEvent.symbol] = quantity]
    ELSE holdings

OnOrderEvent(orderEvent, quantity) ==
    /\ pc = "running"
    /\ Len(OrderEventLines) < MaxFills
    /\ holdings' = HoldingsAfter(orderEvent, quantity)
    /\ LET r == OrderEventResult(orderEvent, holdings')
       IN /\ error' = r.error
          /\ pc' = IF r.error = NoError THEN "running" ELSE "failed"
          /\ log' = IF r.logged
                    THEN Append(log, OrderEventLine(orderEvent, holdings'))
                    ELSE log
          /\ last' = [cb |-> "OnOrderEvent", event |-> orderEvent,
                      asserted |-> r.asserted]
    /\ UNCHANGED <<es19h21, esOption, expectedContract, securities, scheduled,
                   orders>>

(***************************************************************************)
(* The engine settles the option position without an order event (the      *)
(* contract lapsing at expiry): the holdings drop to zero between two      *)
(* callbacks.                                                              *)
(***************************************************************************)
OptionExpires ==
    /\ pc = "running"
    /\ holdings[esOption] # 0
    /\ holdings' = [holdings EXCEPT ![esOption] = 0]
    /\ last' = [cb |-> "OptionExpires"]
    /\ UNCHANGED <<pc, es19h21, esOption, expectedContract, securities,
                   scheduled, orders, log, error>>

(***************************************************************************)
(* OnEndOfAlgorithm, lines 123-125.  The engine calls it at the end date,  *)
(* which the scheduled event's date precedes.                              *)
(***************************************************************************)
Invested == \E s \in securities : holdings[s] # 0

HoldingsList == {s \in securities : holdings[s] # 0}

EndOfAlgorithmNoCheck == NoError

EndOfAlgorithmCheck ==
    IF Invested
    THEN AssertionError("non-flat-portfolio",
             "Expected no holdings at end of algorithm, but are invested in",
             securities)
    ELSE NoError

OnEndOfAlgorithm ==
    /\ pc = "running"
    /\ scheduled = "fired"
    /\ last' = [cb |-> "OnEndOfAlgorithm"]
    /\ error' = EndOfAlgorithmCheck
    /\ pc' = IF error' = NoError THEN "ended" ELSE "failed"
    /\ UNCHANGED <<es19h21, esOption, expectedContract, securities, holdings,
                   scheduled, orders, log>>

Next ==
    \/ \E chain \in OptionChains : Initialize(chain)
    \/ ScheduledMarketOrder
    \/ \E slice \in Slices : OnData(slice)
    \/ \E orderEvent \in OrderEvents, quantity \in HoldingQuantities :
           OnOrderEvent(orderEvent, quantity)
    \/ OptionExpires
    \/ OnEndOfAlgorithm

Spec == Init /\ [][Next]_vars

(***************************************************************************)
(* The properties.  They are written against the source's literals, not    *)
(* against the operators above.                                            *)
(***************************************************************************)
TheFuture == [type |-> "Future", ticker |-> "ES", market |-> "CME", expiry |-> 20210319]

TheExpectedId ==
    [type |-> "FutureOption", underlying |-> TheFuture, market |-> "CME",
     style |-> "American", right |-> "Put", strike |-> 3200, expiry |-> 20210319]

IsPutAtOrAbove(c) == c.right = "Put" /\ c.strike >= 3200

\* chain[i] is the put of lowest strike >= 3200.0, the earliest in the chain
\* among those of that strike.
IsLowestPut(chain, i) ==
    /\ IsPutAtOrAbove(chain[i])
    /\ \A j \in 1..Len(chain) :
          IsPutAtOrAbove(chain[j]) =>
             \/ chain[i].strike < chain[j].strike
             \/ chain[i].strike = chain[j].strike /\ i <= j

IdentityError ==
    /\ error.type = "AssertionError"
    /\ error.message = "Contract was not found in the chain"

\* C1: when the chain holds a put of strike >= 3200.0, Initialize selects the
\* one of lowest strike and registers it; it raises the contract-identity
\* error exactly when the selected identifier differs from the expected one
\* (ES 2021-03-19 future, CME, American, Put, 3200.0, 2021-03-19); when the
\* lowest such put has strike 3200.0 and expiry 2021-03-19, setup completes
\* without error.
C1_SetupSelectsLowestPut ==
    /\ (last.cb = "Initialize" /\ \E i \in 1..Len(last.chain) : IsPutAtOrAbove(last.chain[i])) =>
          \E i \in 1..Len(last.chain) :
             /\ IsLowestPut(last.chain, i)
             /\ esOption = last.chain[i]
             /\ esOption \in securities
             /\ (pc = "failed") <=> (esOption # TheExpectedId)
             /\ (pc = "failed") => IdentityError
             /\ (last.chain[i].strike = 3200 /\ last.chain[i].expiry = 20210319) =>
                   (pc = "running" /\ error = NoError)
    /\ IdentityError => (last.cb = "Initialize" /\ esOption # TheExpectedId)

\* A setup that had to sort: the 3300.0 put came first in the chain, the
\* expected 3200.0 put second, and setup completed.
C1_Witness ==
    /\ last.cb = "Initialize"
    /\ pc = "running"
    /\ Len(last.chain) = 2
    /\ last.chain[1].right = "Put" /\ last.chain[1].strike = 3300
    /\ last.chain[2] = TheExpectedId
    /\ esOption = TheExpectedId

TheSellOrder == [symbol |-> TheExpectedId, quantity |-> -1]

\* C2: a run that reaches its end has submitted exactly one order, the
\* market sell of quantity -1 of the selected option; at no point have two
\* orders been submitted, and only the scheduled callback ever submits one.
C2_ExactlyOneOrder ==
    /\ [](/\ (pc = "ended" => orders = <<TheSellOrder>>)
          /\ Len(orders) <= 1
          /\ (orders # <<>> => (scheduled = "fired" /\ orders[1].symbol = esOption)))
    /\ [][orders' # orders =>
             (last'.cb = "ScheduledMarketOrder" /\ Len(orders') = Len(orders) + 1)]_vars

\* A complete run whose single order was the scheduled sell.
C2_Witness == pc = "ended" /\ orders = <<TheSellOrder>> /\ scheduled = "fired"

SymbolError ==
    /\ error.type = "AssertionError"
    /\ error.message \in {"Order event Symbol not found in Securities collection",
                          "Expected no order events for underlying Symbol",
                          "Received order event for unknown Symbol"}

\* C3: OnOrderEvent returns without failing and without any check for an
\* event that is not Filled; a Filled event fails when its symbol is not in
\* Securities, when it is the underlying future, and when it is any other
\* security than the expected contract; the assertion routine is reached
\* only for a Filled event on the expected contract.
C3_OrderEventDispatch ==
    last.cb = "OnOrderEvent" =>
       LET ev == last.event
           filled == ev.status = "Filled"
       IN /\ ~filled => (pc = "running" /\ error = NoError /\ ~last.asserted)
          /\ (filled /\ ev.symbol \notin securities) =>
                (pc = "failed" /\ error.type = "AssertionError"
                 /\ error.message = "Order event Symbol not found in Securities collection")
          /\ (filled /\ ev.symbol = TheFuture) =>
                (pc = "failed" /\ error.type = "AssertionError"
                 /\ error.message = "Expected no order events for underlying Symbol")
          /\ (filled /\ ev.symbol \in securities /\ ev.symbol \notin {TheFuture, TheExpectedId}) =>
                (pc = "failed" /\ error.type = "AssertionError"
                 /\ error.message = "Received order event for unknown Symbol")
          /\ last.asserted <=> (filled /\ ev.symbol = TheExpectedId)
          /\ (filled /\ ev.symbol # TheExpectedId) => SymbolError

\* A Filled event for the underlying future, which the handler rejected.
C3_Witness ==
    /\ last.cb = "OnOrderEvent"
    /\ last.event.status = "Filled"
    /\ last.event.symbol = TheFuture
    /\ pc = "failed"

\* C4: a Filled event on the expected contract is accepted exactly when
\* (Sell => holdings = -1), (Buy => holdings = 0) and it carries no
\* assignment flag; otherwise the handler fails with a holdings-quantity or
\* assignment error.
C4_FillAssertions ==
    (last.cb = "OnOrderEvent" /\ last.event.status = "Filled"
     /\ last.event.symbol = TheExpectedId) =>
       LET ev == last.event
           q == holdings[ev.symbol]
           good == /\ (ev.direction = "Sell" => q = -1)
                   /\ (ev.direction = "Buy" => q = 0)
                   /\ ~ev.isAssignment
       IN /\ (pc = "running") <=> good
          /\ ~good => (pc = "failed" /\ error.type = "AssertionError"
                       /\ error.category \in {"holdings-quantity", "assignment"})
          /\ (pc = "failed" /\ error.category = "assignment") => ev.isAssignment

\* An accepted sell fill of the expected contract, holdings -1.
C4_Witness ==
    /\ last.cb = "OnOrderEvent"
    /\ last.event.status = "Filled"
    /\ last.event.symbol = TheExpectedId
    /\ last.event.direction = "Sell"
    /\ holdings[TheExpectedId] = -1
    /\ pc = "running"

Mistimed(d) ==
    \/ d.type = "Warning" /\ d.time # 20210319
    \/ d.type = "Delisted" /\ d.time # 20210320

\* C5: OnData fails exactly when some delisting event of the tick is a
\* Warning not timed 2021-03-19 or a Delisted not timed 2021-03-20, the
\* selected option's events included; a tick with no delisting or only
\* correctly timed ones passes.
C5_DelistingTimes ==
    last.cb = "OnData" =>
       LET bad == \E i \in 1..Len(last.slice) : Mistimed(last.slice[i])
       IN /\ (pc = "failed") <=> bad
          /\ bad => (error.type = "AssertionError" /\ error.category = "delisting-timing")
          /\ ~bad => (pc = "running" /\ error = NoError)

\* A tick whose first delisting is a correctly timed warning and whose
\* second is the option's final delisting stamped with the expiry date.
C5_Witness ==
    /\ last.cb = "OnData"
    /\ Len(last.slice) = 2
    /\ last.slice[1].type = "Warning" /\ last.slice[1].time = 20210319
    /\ last.slice[2] = [symbol |-> TheExpectedId, type |-> "Delisted", time |-> 20210319]
    /\ pc = "failed"

IsFillLine(l, direction) ==
    l.text = "OrderEvent" /\ l.event.direction = direction

\* C6: OnEndOfAlgorithm fails exactly when some security has non-zero
\* holdings, so a run that ends without failure ends flat: not invested, no
\* holdings, the option's quantity 0.
C6_EndsFlat ==
    /\ last.cb = "OnEndOfAlgorithm" =>
          ((pc = "failed") <=> (\E s \in securities : holdings[s] # 0))
    /\ pc = "ended" =>
          /\ last.cb = "OnEndOfAlgorithm"
          /\ ~Invested
          /\ HoldingsList = {}
          /\ holdings[TheExpectedId] = 0

\* A run that ended flat although a sell fill at holdings -1 was accepted.
C6_Witness ==
    /\ pc = "ended"
    /\ \E i \in 1..Len(log) : IsFillLine(log[i], "Sell") /\ log[i].held = -1
    /\ holdings[TheExpectedId] = 0

C8_FailuresAreAssertionErrors ==
    pc = "failed" =>
       /\ error.type = "AssertionError"
       /\ error.category \in {"contract-identity", "delisting-timing",
                              "order-event-symbol", "holdings-quantity",
                              "assignment", "non-flat-portfolio"}

\* C9: after setup no step changes es19h21, esOption or expectedContract,
\* whether the callback passes or fails.
C9_FieldsWrittenOnce == [][pc # "constructed" => UNCHANGED fields]_vars

\* Callbacks have run and one failed, with the fields as setup left them.
C9_Witness ==
    /\ pc = "failed"
    /\ last.cb = "OnOrderEvent"
    /\ orders # <<>>
    /\ fields = <<TheFuture, TheExpectedId, TheExpectedId>>

\* C10: the scheduled event exists only once the identity check has passed,
\* a failed setup leaves no order, every submitted order is for the
\* expected contract, and a fill of that order's symbol is never rejected
\* for its symbol.
C10_OrderIsForExpectedContract ==
    /\ scheduled # "none" => (esOption = expectedContract /\ esOption = TheExpectedId)
    /\ (pc = "failed" /\ last.cb = "Initialize") => (scheduled = "none" /\ orders = <<>>)
    /\ \A i \in 1..Len(orders) : orders[i].symbol = expectedContract
    /\ (last.cb = "OnOrderEvent" /\ orders # <<>>
        /\ last.event.symbol = orders[1].symbol /\ last.event.status = "Filled") =>
          (last.asserted /\ ~SymbolError)

\* A fill of the submitted order's symbol reached the assertion routine.
C10_Witness ==
    /\ last.cb = "OnOrderEvent"
    /\ orders # <<>>
    /\ last.event.symbol = orders[1].symbol
    /\ last.event.status = "Filled"
    /\ last.asserted
    /\ pc = "running"
====
